---------------------------- MODULE Spec2Model ----------------------------
(***************************************************************************)
(* Ticket collaboration core of the internal support-ticket system:        *)
(* the tickets, ticket_messages and attachments tables, the upload         *)
(* directory, and the HTTP handlers of TicketController and                *)
(* UploadController with the middleware in front of them.                  *)
(*                                                                         *)
(* A table is the sequence of its rows in rowid order.  Every handler is   *)
(* one action: it runs to completion inside one request (the services are  *)
(* synchronous better-sqlite3 and fs calls) and leaves the request and the *)
(* reply it produced in the variable "last".                               *)
(***************************************************************************)
EXTENDS Integers, Sequences, FiniteSets, TLC

(***************************************************************************)
(* Bounds of the model.                                                    *)
(***************************************************************************)
MaxTickets == 1          \* tickets ever created
MaxListed == 2           \* tickets ever created where tickets are listed and searched
MaxNumbered == 3         \* tickets ever created where ticket numbers are drawn
MaxCascaded == 2         \* tickets ever created where deletions cascade
MaxMessages == 2         \* messages ever appended
MaxPosted == 1           \* messages ever appended where every operation runs together
MaxAttachments == 1      \* stored filenames ever generated
MaxStored == 2           \* attachments ever stored where files are read back
MaxClock == 1            \* last instant of the server clock
MaxMigrated == 4         \* rows of ticket_messages after which no start or append begins

(***************************************************************************)
(* Program constants.                                                      *)
(***************************************************************************)
MAX_FILE_SIZE == 5242880
NULL == 0
PAD_LENGTH == 4
CURRENT_YEAR == 2026
UNDEFINED == -1

(***************************************************************************)
(* Users table as seeded (one administrator, members besides) and the      *)
(* token payloads authenticate() puts in req.user.                         *)
(***************************************************************************)
UserRole == (1 :> "admin") @@ (2 :> "user") @@ (3 :> "user")

UserIds == DOMAIN UserRole

Tokens == {[userId |-> u, role |-> UserRole[u]] : u \in UserIds}

(***************************************************************************)
(* Sequence helpers.                                                       *)
(***************************************************************************)
RECURSIVE FilterSeq(_, _)
\* the elements of s at the indices in Keep, in order
FilterSeq(s, Keep) ==
    IF s = <<>> THEN <<>>
    ELSE LET n == Len(s)
             front == FilterSeq(SubSeq(s, 1, n - 1), Keep)
         IN  IF n \in Keep THEN Append(front, s[n]) ELSE front

\* the rows of a table, and the rows among them a WHERE clause keeps, in order
Rows(table) == {table[i] : i \in DOMAIN table}

Where(table, kept) == FilterSeq(table, {i \in DOMAIN table : table[i] \in kept})

RECURSIVE Reverse(_)
Reverse(s) == IF s = <<>> THEN <<>> ELSE Append(Reverse(Tail(s)), Head(s))

RECURSIVE SortedIndices(_, _)
\* the indices in S by ascending key, equal keys in rowid order
SortedIndices(keys, S) ==
    IF S = {} THEN <<>>
    ELSE LET i == CHOOSE i \in S :
                      \A j \in S : keys[i] < keys[j] \/ (keys[i] = keys[j] /\ i <= j)
         IN  <<i>> \o SortedIndices(keys, S \ {i})

\* ORDER BY key ASC
OrderByAsc(rows, key) ==
    LET order == SortedIndices([i \in DOMAIN rows |-> rows[i][key]], DOMAIN rows)
    IN  [n \in DOMAIN rows |-> rows[order[n]]]

\* ORDER BY key DESC
OrderByDesc(rows, key) == Reverse(OrderByAsc(rows, key))

(***************************************************************************)
(* Text.  A string is a sequence of one-character strings.                 *)
(***************************************************************************)
Digit == <<"0", "1", "2", "3", "4", "5", "6", "7", "8", "9">>

RECURSIVE toString(_)
\* Number.prototype.toString for a natural number
toString(n) ==
    IF n < 10 THEN <<Digit[n + 1]>>
    ELSE Append(toString(n \div 10), Digit[(n % 10) + 1])

RECURSIVE padStart(_, _, _)
\* String.prototype.padStart with a one-character filler
padStart(s, len, fill) ==
    IF Len(s) >= len THEN s ELSE padStart(<<fill>> \o s, len, fill)

\* the ticket number without the padStart
generateTicketNumber_NoPadding(year, random) ==
    <<"T", "K", "T", "-">> \o toString(year) \o <<"-">> \o toString(random)

\* `TKT-${year}-${randomNum}`
generateTicketNumber(year, random) ==
    <<"T", "K", "T", "-">> \o toString(year) \o <<"-">>
        \o padStart(toString(random), PAD_LENGTH, "0")

\* SQLite folds ASCII case when LIKE compares
Fold(c) == CASE c = "A" -> "a" [] c = "B" -> "b" [] c = "T" -> "t"
             [] c = "K" -> "k" [] OTHER -> c

RECURSIVE Like(_, _)
\* SQLite's text LIKE pattern: % is any run of characters, _ is any one
Like(text, pattern) ==
    IF pattern = <<>> THEN text = <<>>
    ELSE IF Head(pattern) = "%"
         THEN \/ Like(text, Tail(pattern))
              \/ text # <<>> /\ Like(Tail(text), pattern)
         ELSE /\ text # <<>>
              /\ Head(pattern) = "_" \/ Fold(Head(pattern)) = Fold(Head(text))
              /\ Like(Tail(text), Tail(pattern))

\* String.prototype.trim, a blank being " "
RECURSIVE trimStart(_)
trimStart(s) == IF s # <<>> /\ Head(s) = " " THEN trimStart(Tail(s)) ELSE s

\* the text taken as it is
trim_Nothing(s) == s

trim(s) == Reverse(trimStart(Reverse(trimStart(s))))

(***************************************************************************)
(* errorHandler: the status an exception reaches the caller with, decided  *)
(* by the words its message includes.                                      *)
(***************************************************************************)
ErrorWords ==
    [ticket_fields_required |-> {"required"},       \* 'Title, description, and category are required'
     message_required       |-> {"required"},       \* 'Message content is required'
     ticket_not_found       |-> {"not found"},      \* 'Ticket not found'
     user_not_found         |-> {"not found"},      \* 'User not found'
     invalid_role           |-> {"Invalid"},        \* 'Invalid role. Must be "user" or "admin"'
     file_too_large         |-> {},                 \* 'File size exceeds maximum limit of 5MB'
     file_type              |-> {},                 \* 'File type not allowed'
     sqlite_constraint      |-> {},                 \* 'UNIQUE / CHECK / FOREIGN KEY constraint failed'
     sqlite_io              |-> {},                 \* 'disk I/O error', 'database is locked'
     fs_io                  |-> {}]                 \* 'ENOSPC: no space left on device, write'

\* errorHandler knowing no word: every exception is an internal error
errorHandler_NoWords(error) == [status |-> 500, message |-> "internal_server_error"]

errorHandler(error) ==
    LET words == ErrorWords[error]
    IN  IF "required" \in words \/ "Invalid" \in words
        THEN [status |-> 400, message |-> error]
        ELSE IF "not found" \in words
        THEN [status |-> 404, message |-> error]
        ELSE IF "already exists" \in words
        THEN [status |-> 409, message |-> error]
        ELSE [status |-> 500, message |-> "internal_server_error"]

(***************************************************************************)
(* State.                                                                  *)
(***************************************************************************)
VARIABLES
    tickets,            \* rows of the tickets table
    ticket_messages,    \* rows of the ticket_messages table
    attachments,        \* rows of the attachments table
    sqlite_sequence,    \* AUTOINCREMENT: the last rowid each table handed out
    disk,               \* the upload directory: file path -> bytes
    filenames,          \* stored filenames generated so far
    clock,              \* the server clock: the instant it shows
    users,              \* the users table: id -> role
    issued,             \* payloads of the tokens login has signed
    last                \* the request handled last and its reply

vars == <<tickets, ticket_messages, attachments, sqlite_sequence, disk,
          filenames, clock, users, issued, last>>

db == <<tickets, ticket_messages, attachments, sqlite_sequence>>

store == <<tickets, ticket_messages, attachments, sqlite_sequence, disk, filenames>>

accounts == <<users, issued>>

Init ==
    /\ tickets = <<>>
    /\ ticket_messages = <<>>
    /\ attachments = <<>>
    /\ sqlite_sequence = [tickets |-> 0, ticket_messages |-> 0, attachments |-> 0]
    /\ disk = <<>>
    /\ filenames = 0
    /\ clock = 0
    /\ users = UserRole
    /\ issued = {}
    /\ last = [op |-> "start", status |-> 0]

\* time passes between requests
Tick ==
    /\ clock' = clock + 1
    /\ UNCHANGED <<store, accounts, last>>

(***************************************************************************)
(* Middleware.                                                             *)
(***************************************************************************)
\* requireAdmin with the role test left out
requireAdmin_AnyRole(user) == user.role \in {"admin", "user"}

\* requireAdmin lets the request through
requireAdmin(user) == user.role = "admin"

\* the ownership rule every ticket-scoped handler repeats
AccessDenied(user, ticket) == user.role # "admin" /\ ticket.user_id # user.userId

Reply(op, user, req, status, message, body) ==
    [op |-> op, user |-> user, req |-> req, status |-> status,
     message |-> message, body |-> body]

Throw(op, user, req, error) ==
    LET e == errorHandler(error)
    IN  Reply(op, user, req, e.status, e.message, <<>>)

(***************************************************************************)
(* TicketService reads.                                                    *)
(***************************************************************************)
\* SELECT * FROM tickets WHERE id = ?  (no row, or the one row)
getTicketById(id) == Where(tickets, {r \in Rows(tickets) : r.id = id})

getTicketsByUser(userId) ==
    OrderByDesc(Where(tickets, {r \in Rows(tickets) : r.user_id = userId}), "created_at")

getAllTickets == OrderByDesc(tickets, "created_at")

\* Boolean(message.is_internal) on every row read
\* the column read as text: Boolean('0') is true as Boolean('1') is
ToMessage_AsText(row) == [row EXCEPT !.is_internal = TRUE]

ToMessage(row) == [row EXCEPT !.is_internal = (row.is_internal # 0)]

MapToMessage(rows) == [i \in DOMAIN rows |-> ToMessage(rows[i])]

\* The table that drives the join of ticket_messages with users.  ORDER BY
\* created_at leaves the order of rows of equal created_at to the query plan: the
\* sort keeps them as the join yields them, by rowid when ticket_messages is the
\* outer table and by author, then rowid, when users is.
ScanOrders == {"ticket_messages", "users"}

Scanned(rows, scan) ==
    IF scan = "ticket_messages" THEN rows ELSE OrderByAsc(rows, "user_id")

\* the thread read newest first
getTicketMessages_NewestFirst(ticketId, scan) ==
    LET P(r) == r.ticket_id = ticketId
        rows == Where(ticket_messages, {r \in Rows(ticket_messages) : P(r)})
    IN  MapToMessage(OrderByDesc(Scanned(rows, scan), "created_at"))

getTicketMessages(ticketId, scan) ==
    LET P(r) == r.ticket_id = ticketId
        rows == Where(ticket_messages, {r \in Rows(ticket_messages) : P(r)})
    IN  MapToMessage(OrderByAsc(Scanned(rows, scan), "created_at"))

getMessageById(id) ==
    MapToMessage(Where(ticket_messages, {r \in Rows(ticket_messages) : r.id = id}))

getTicketWithDetails(id, scan) ==
    LET found == getTicketById(id)
    IN  IF found = <<>> THEN <<>>
        ELSE <<[ticket |-> found[1], messages |-> getTicketMessages(id, scan)]>>

\* the search with the parentheses around the three LIKEs left out: AND binds
\* tighter than OR, so the owner filter reaches the last LIKE only
searchTickets_NoParentheses(query, userId) ==
    LET pattern == <<"%">> \o query \o <<"%">>
        P(r) == \/ Like(r.title, pattern)
                \/ Like(r.description, pattern)
                \/ /\ Like(r.ticket_number, pattern)
                   /\ userId # NULL => r.user_id = userId
    IN  OrderByDesc(Where(tickets, {r \in Rows(tickets) : P(r)}), "created_at")

\* WHERE (title LIKE ? OR description LIKE ? OR ticket_number LIKE ?) [AND user_id = ?]
searchTickets(query, userId) ==
    LET pattern == <<"%">> \o query \o <<"%">>
        P(r) == /\ \/ Like(r.title, pattern)
                   \/ Like(r.description, pattern)
                   \/ Like(r.ticket_number, pattern)
                /\ userId # NULL => r.user_id = userId
    IN  OrderByDesc(Where(tickets, {r \in Rows(tickets) : P(r)}), "created_at")

(***************************************************************************)
(* TicketController.                                                       *)
(***************************************************************************)
Categories == {"hardware", "software", "network", "access", "other"}
Priorities == {"low", "medium", "high", "critical"}
Statuses == {"open", "in_progress", "resolved", "closed"}

\* new Date().getFullYear() at instant t: the year turns after instant 0 and
\* then every second instant
getFullYear(t) == CURRENT_YEAR + ((t + 1) \div 2)

\* the INSERT naming assigned_to, with the creator as its value
NewTicketRow_AssignedToCreator(id, ticketNumber, userId, title, description, category, priority) ==
    [id |-> id, ticket_number |-> ticketNumber, user_id |-> userId,
     title |-> title, description |-> description, category |-> category,
     priority |-> priority, status |-> "open", assigned_to |-> userId,
     created_at |-> clock]

\* the row INSERT INTO tickets stores: status and assigned_to take the column defaults
NewTicketRow(id, ticketNumber, userId, title, description, category, priority) ==
    [id |-> id, ticket_number |-> ticketNumber, user_id |-> userId,
     title |-> title, description |-> description, category |-> category,
     priority |-> priority, status |-> "open", assigned_to |-> NULL,
     created_at |-> clock]

\* POST /tickets
createTicket(user, title, description, category, priorityGiven, random) ==
    LET req == [title |-> title, description |-> description, category |-> category,
                priority |-> priorityGiven, random |-> random]
        priority == IF priorityGiven = "undefined" THEN "medium" ELSE priorityGiven
        ticketNumber == generateTicketNumber(getFullYear(clock), random)
        id == sqlite_sequence.tickets + 1
        row == NewTicketRow(id, ticketNumber, user.userId, title, description,
                            category, priority)
    IN  IF title = <<>> \/ description = <<>> \/ category = ""
        THEN /\ last' = Throw("createTicket", user, req, "ticket_fields_required")
             /\ UNCHANGED <<store, clock, accounts>>
        ELSE IF \/ \E i \in DOMAIN tickets : tickets[i].ticket_number = ticketNumber
                \/ category \notin Categories
                \/ priority \notin Priorities
                \/ user.userId \notin UserIds
        THEN /\ last' = Throw("createTicket", user, req, "sqlite_constraint")
             /\ UNCHANGED <<store, clock, accounts>>
        ELSE /\ tickets' = Append(tickets, row)
             /\ sqlite_sequence' = [sqlite_sequence EXCEPT !.tickets = id]
             /\ last' = Reply("createTicket", user, req, 201, "created", row)
             /\ UNCHANGED <<ticket_messages, attachments, disk, filenames, clock, accounts>>

\* GET /tickets
getTickets(user) ==
    /\ last' = Reply("getTickets", user, [id |-> NULL], 200, "ok",
                     IF user.role = "admin" THEN getAllTickets
                     ELSE getTicketsByUser(user.userId))
    /\ UNCHANGED <<store, clock, accounts>>

\* GET /tickets/search?q=
searchTicketsHandler(user, query) ==
    /\ last' = IF query = <<>>
               THEN Reply("searchTickets", user, [q |-> query], 400, "query_required", <<>>)
               ELSE Reply("searchTickets", user, [q |-> query], 200, "ok",
                          searchTickets(query, IF user.role = "admin" THEN NULL
                                               ELSE user.userId))
    /\ UNCHANGED <<store, clock, accounts>>

\* GET /tickets/:id
getTicketByIdHandler(user, ticketId, scan) ==
    LET found == getTicketWithDetails(ticketId, scan)
        req == [id |-> ticketId, scan |-> scan]
    IN  /\ last' = IF found = <<>>
                   THEN Reply("getTicketById", user, req, 404, "ticket_not_found", <<>>)
                   ELSE IF AccessDenied(user, found[1].ticket)
                   THEN Reply("getTicketById", user, req, 403, "access_denied", <<>>)
                   ELSE Reply("getTicketById", user, req, 200, "ok", found[1])
        /\ UNCHANGED <<store, clock, accounts>>

\* GET /tickets/:id/messages
getTicketMessagesHandler(user, ticketId, scan) ==
    LET found == getTicketById(ticketId)
        req == [id |-> ticketId, scan |-> scan]
        messages == getTicketMessages(ticketId, scan)
        NotInternal(m) == ~m.is_internal
    IN  /\ last' = IF found = <<>>
                   THEN Reply("getTicketMessages", user, req, 404, "ticket_not_found", <<>>)
                   ELSE IF AccessDenied(user, found[1])
                   THEN Reply("getTicketMessages", user, req, 403, "access_denied", <<>>)
                   ELSE Reply("getTicketMessages", user, req, 200, "ok",
                              IF user.role = "admin" THEN messages
                              ELSE Where(messages, {r \in Rows(messages) : NotInternal(r)}))
        /\ UNCHANGED <<store, clock, accounts>>

\* the values of is_internal the handler takes as a request for an internal message
\* (true, 'true' or 1)
RequestsInternal(is_internal) == is_internal \in {"true", "'true'", "1"}

\* isInternalBool without the test of the caller's role
isInternalBool_AnyRole(user, is_internal) == RequestsInternal(is_internal)

\* isInternalBool of TicketController.addMessage
isInternalBool(user, is_internal) == user.role = "admin" /\ RequestsInternal(is_internal)

\* the row INSERT INTO ticket_messages stores: is_internal ? 1 : 0
NewMessageRow(id, ticketId, userId, message, is_internal) ==
    [id |-> id, ticket_id |-> ticketId, user_id |-> userId, message |-> message,
     is_internal |-> IF is_internal THEN 1 ELSE 0, created_at |-> clock]

\* the append that reopens the ticket it is appended to
addMessage_ReopensTicket(user, ticketId, message, is_internal) ==
    LET req == [id |-> ticketId, message |-> message, is_internal |-> is_internal]
        found == getTicketById(ticketId)
        id == sqlite_sequence.ticket_messages + 1
        row == NewMessageRow(id, ticketId, user.userId, trim(message),
                             isInternalBool(user, is_internal))
    IN  IF trim(message) = <<>>
        THEN /\ last' = Reply("addMessage", user, req, 400, "message_required", <<>>)
             /\ UNCHANGED <<store, clock, accounts>>
        ELSE IF found = <<>>
        THEN /\ last' = Reply("addMessage", user, req, 404, "ticket_not_found", <<>>)
             /\ UNCHANGED <<store, clock, accounts>>
        ELSE IF AccessDenied(user, found[1])
        THEN /\ last' = Reply("addMessage", user, req, 403, "access_denied", <<>>)
             /\ UNCHANGED <<store, clock, accounts>>
        ELSE /\ ticket_messages' = Append(ticket_messages, row)
             /\ sqlite_sequence' = [sqlite_sequence EXCEPT !.ticket_messages = id]
             /\ last' = Reply("addMessage", user, req, 201, "created", ToMessage(row))
             /\ tickets' = [i \in DOMAIN tickets |->
                               IF tickets[i].id = ticketId
                               THEN [tickets[i] EXCEPT !.status = "open"]
                               ELSE tickets[i]]
             /\ UNCHANGED <<attachments, disk, filenames, clock, accounts>>

\* POST /tickets/:id/messages
addMessage(user, ticketId, message, is_internal) ==
    LET req == [id |-> ticketId, message |-> message, is_internal |-> is_internal]
        found == getTicketById(ticketId)
        id == sqlite_sequence.ticket_messages + 1
        row == NewMessageRow(id, ticketId, user.userId, trim(message),
                             isInternalBool(user, is_internal))
    IN  IF trim(message) = <<>>
        THEN /\ last' = Reply("addMessage", user, req, 400, "message_required", <<>>)
             /\ UNCHANGED <<store, clock, accounts>>
        ELSE IF found = <<>>
        THEN /\ last' = Reply("addMessage", user, req, 404, "ticket_not_found", <<>>)
             /\ UNCHANGED <<store, clock, accounts>>
        ELSE IF AccessDenied(user, found[1])
        THEN /\ last' = Reply("addMessage", user, req, 403, "access_denied", <<>>)
             /\ UNCHANGED <<store, clock, accounts>>
        ELSE /\ ticket_messages' = Append(ticket_messages, row)
             /\ sqlite_sequence' = [sqlite_sequence EXCEPT !.ticket_messages = id]
             /\ last' = Reply("addMessage", user, req, 201, "created", ToMessage(row))
             /\ UNCHANGED <<tickets, attachments, disk, filenames, clock, accounts>>

\* the UPDATE leaving the status of a closed ticket as it is
UpdatedTicketRow_ClosedIsFinal(row, updates) ==
    [row EXCEPT
        !.status = IF updates.status # "undefined" /\ @ # "closed" THEN updates.status ELSE @,
        !.assigned_to = IF updates.assigned_to # UNDEFINED THEN updates.assigned_to ELSE @,
        !.priority = IF updates.priority # "undefined" THEN updates.priority ELSE @]

\* the UPDATE writing all three columns: a column the request leaves out gets
\* its default
UpdatedTicketRow_AllColumns(row, updates) ==
    [row EXCEPT
        !.status = IF updates.status # "undefined" THEN updates.status ELSE "open",
        !.assigned_to = IF updates.assigned_to # UNDEFINED THEN updates.assigned_to ELSE NULL,
        !.priority = IF updates.priority # "undefined" THEN updates.priority ELSE "medium"]

\* the row UPDATE tickets SET ... leaves: only the fields the request names change
UpdatedTicketRow(row, updates) ==
    [row EXCEPT
        !.status = IF updates.status # "undefined" THEN updates.status ELSE @,
        !.assigned_to = IF updates.assigned_to # UNDEFINED THEN updates.assigned_to ELSE @,
        !.priority = IF updates.priority # "undefined" THEN updates.priority ELSE @]

\* the update clearing the thread of the ticket it changes
updateTicket_ClearsThread(user, ticketId, updates) ==
    LET req == [id |-> ticketId, updates |-> updates]
        found == getTicketById(ticketId)
        row == UpdatedTicketRow(found[1], updates)
    IN  IF ~requireAdmin(user)
        THEN /\ last' = Reply("updateTicket", user, req, 403, "admin_required", <<>>)
             /\ UNCHANGED <<store, clock, accounts>>
        ELSE IF found = <<>>
        THEN /\ last' = Throw("updateTicket", user, req, "ticket_not_found")
             /\ UNCHANGED <<store, clock, accounts>>
        ELSE IF \/ row.status \notin Statuses
                \/ row.priority \notin Priorities
                \/ row.assigned_to \notin UserIds \cup {NULL}
        THEN /\ last' = Throw("updateTicket", user, req, "sqlite_constraint")
             /\ UNCHANGED <<store, clock, accounts>>
        ELSE /\ tickets' = [i \in DOMAIN tickets |->
                               IF tickets[i].id = ticketId THEN row ELSE tickets[i]]
             /\ last' = Reply("updateTicket", user, req, 200, "ok", row)
             /\ ticket_messages' =
                   Where(ticket_messages,
                         {r \in Rows(ticket_messages) : r.ticket_id # ticketId})
             /\ UNCHANGED <<attachments, sqlite_sequence, disk, filenames, clock, accounts>>

\* PUT /tickets/:id
updateTicket(user, ticketId, updates) ==
    LET req == [id |-> ticketId, updates |-> updates]
        found == getTicketById(ticketId)
        row == UpdatedTicketRow(found[1], updates)
    IN  IF ~requireAdmin(user)
        THEN /\ last' = Reply("updateTicket", user, req, 403, "admin_required", <<>>)
             /\ UNCHANGED <<store, clock, accounts>>
        ELSE IF found = <<>>
        THEN /\ last' = Throw("updateTicket", user, req, "ticket_not_found")
             /\ UNCHANGED <<store, clock, accounts>>
        ELSE IF \/ row.status \notin Statuses
                \/ row.priority \notin Priorities
                \/ row.assigned_to \notin UserIds \cup {NULL}
        THEN /\ last' = Throw("updateTicket", user, req, "sqlite_constraint")
             /\ UNCHANGED <<store, clock, accounts>>
        ELSE /\ tickets' = [i \in DOMAIN tickets |->
                               IF tickets[i].id = ticketId THEN row ELSE tickets[i]]
             /\ last' = Reply("updateTicket", user, req, 200, "ok", row)
             /\ UNCHANGED <<ticket_messages, attachments, sqlite_sequence, disk,
                            filenames, clock, accounts>>

\* the DELETE with foreign_keys left off: the rows of the other tables stay
deleteTicket_NoForeignKeys(user, ticketId) ==
    LET req == [id |-> ticketId]
        found == getTicketById(ticketId)
        OtherTicket(r) == r.id # ticketId
    IN  IF ~requireAdmin(user)
        THEN /\ last' = Reply("deleteTicket", user, req, 403, "admin_required", <<>>)
             /\ UNCHANGED <<store, clock, accounts>>
        ELSE IF found = <<>>
        THEN /\ last' = Reply("deleteTicket", user, req, 404, "ticket_not_found", <<>>)
             /\ UNCHANGED <<store, clock, accounts>>
        ELSE /\ tickets' = Where(tickets, {r \in Rows(tickets) : OtherTicket(r)})
             /\ last' = Reply("deleteTicket", user, req, 200, "deleted", <<>>)
             /\ UNCHANGED <<ticket_messages, attachments, sqlite_sequence, disk,
                            filenames, clock, accounts>>

\* DELETE FROM tickets WHERE id = ?, with the ON DELETE CASCADE of ticket_messages
\* and attachments (foreign_keys = ON)
deleteTicket(user, ticketId) ==
    LET req == [id |-> ticketId]
        found == getTicketById(ticketId)
        OtherTicket(r) == r.id # ticketId
        OfOtherTicket(r) == r.ticket_id # ticketId
    IN  IF ~requireAdmin(user)
        THEN /\ last' = Reply("deleteTicket", user, req, 403, "admin_required", <<>>)
             /\ UNCHANGED <<store, clock, accounts>>
        ELSE IF found = <<>>
        THEN /\ last' = Reply("deleteTicket", user, req, 404, "ticket_not_found", <<>>)
             /\ UNCHANGED <<store, clock, accounts>>
        ELSE /\ tickets' = Where(tickets, {r \in Rows(tickets) : OtherTicket(r)})
             /\ ticket_messages' = Where(ticket_messages,
                                         {r \in Rows(ticket_messages) : OfOtherTicket(r)})
             /\ attachments' = Where(attachments, {r \in Rows(attachments) : OfOtherTicket(r)})
             /\ last' = Reply("deleteTicket", user, req, 200, "deleted", <<>>)
             /\ UNCHANGED <<sqlite_sequence, disk, filenames, clock, accounts>>

(***************************************************************************)
(* FileService and UploadController.                                       *)
(***************************************************************************)
allowedMimeTypes ==
    {"image/jpeg", "image/png", "image/gif", "application/pdf", "text/plain",
     "application/msword",
     "application/vnd.openxmlformats-officedocument.wordprocessingml.document",
     "application/zip"}

\* req.file when the multipart body carries no file
NoFile == [present |-> FALSE, originalname |-> "", size |-> 0, mimetype |-> "",
           buffer |-> ""]

\* upload.single('file'): the file of the multipart body, held in memory as
\* file.buffer, reaches the handler as req.file; nothing is written to the disk
upload_single(file) == file

\* generateUniqueFilename naming the file by the timestamp alone
generateUniqueFilename_TimestampOnly == clock + 1

\* generateUniqueFilename: a name no earlier call returned (timestamp and 8 random bytes)
generateUniqueFilename == filenames + 1

existsSync(path) == path \in DOMAIN disk

\* SELECT * FROM attachments WHERE id = ?  (no row, or the one row)
getAttachmentById(id) == Where(attachments, {r \in Rows(attachments) : r.id = id})

getTicketAttachments(ticketId) ==
    LET P(r) == r.ticket_id = ticketId
    IN  OrderByDesc(Where(attachments, {r \in Rows(attachments) : P(r)}), "uploaded_at")

validateFileAccess(attachmentId, userId, userRole) ==
    LET found == getAttachmentById(attachmentId)
        ticket == IF found = <<>> THEN <<>> ELSE getTicketById(found[1].ticket_id)
    IN  IF found = <<>> THEN FALSE
        ELSE IF userRole = "admin" THEN TRUE
        ELSE IF ticket # <<>> THEN ticket[1].user_id = userId ELSE FALSE

\* the INSERT storing a path other than the one the file was written to
NewAttachmentRow_OtherPath(id, ticketId, userId, file, filePath) ==
    [id |-> id, ticket_id |-> ticketId, original_filename |-> file.originalname,
     file_path |-> NULL, file_size |-> file.size, mime_type |-> file.mimetype,
     uploaded_by |-> userId, uploaded_at |-> clock]

\* the row INSERT INTO attachments stores
NewAttachmentRow(id, ticketId, userId, file, filePath) ==
    [id |-> id, ticket_id |-> ticketId, original_filename |-> file.originalname,
     file_path |-> filePath, file_size |-> file.size, mime_type |-> file.mimetype,
     uploaded_by |-> userId, uploaded_at |-> clock]

\* What can go wrong under the services: writeFileSync, unlinkSync or a
\* statement's run() throwing.
UploadFaults == {"none", "writeFileSync", "insert"}
DeleteFaults == {"none", "unlinkSync", "delete"}

\* POST /tickets/:ticketId/attachments
uploadAttachment(user, ticketId, sent, fault) ==
    LET file == upload_single(sent)
        req == [id |-> ticketId, file |-> sent, fault |-> fault]
        found == getTicketById(ticketId)
        filePath == generateUniqueFilename
        id == sqlite_sequence.attachments + 1
        row == NewAttachmentRow(id, ticketId, user.userId, file, filePath)
    IN  IF ~file.present
        THEN /\ last' = Reply("uploadAttachment", user, req, 400, "no_file", <<>>)
             /\ UNCHANGED <<store, clock, accounts>>
        ELSE IF found = <<>>
        THEN /\ last' = Reply("uploadAttachment", user, req, 404, "ticket_not_found", <<>>)
             /\ UNCHANGED <<store, clock, accounts>>
        ELSE IF AccessDenied(user, found[1])
        THEN /\ last' = Reply("uploadAttachment", user, req, 403, "access_denied", <<>>)
             /\ UNCHANGED <<store, clock, accounts>>
        ELSE IF file.size > MAX_FILE_SIZE
        THEN /\ last' = Throw("uploadAttachment", user, req, "file_too_large")
             /\ UNCHANGED <<store, clock, accounts>>
        ELSE IF file.mimetype \notin allowedMimeTypes
        THEN /\ last' = Throw("uploadAttachment", user, req, "file_type")
             /\ UNCHANGED <<store, clock, accounts>>
        ELSE IF fault = "writeFileSync"
        THEN /\ filenames' = filePath
             /\ last' = Throw("uploadAttachment", user, req, "fs_io")
             /\ UNCHANGED <<db, disk, clock, accounts>>
        ELSE IF fault = "insert"
        THEN /\ filenames' = filePath
             /\ disk' = (filePath :> file.buffer) @@ disk
             /\ last' = Throw("uploadAttachment", user, req, "sqlite_io")
             /\ UNCHANGED <<db, clock, accounts>>
        ELSE /\ filenames' = filePath
             /\ disk' = (filePath :> file.buffer) @@ disk
             /\ attachments' = Append(attachments, row)
             /\ sqlite_sequence' = [sqlite_sequence EXCEPT !.attachments = id]
             /\ last' = Reply("uploadAttachment", user, req, 201, "created", row)
             /\ UNCHANGED <<tickets, ticket_messages, clock, accounts>>

\* GET /tickets/:ticketId/attachments
getTicketAttachmentsHandler(user, ticketId) ==
    LET found == getTicketById(ticketId)
        req == [id |-> ticketId]
    IN  /\ last' = IF found = <<>>
                   THEN Reply("getTicketAttachments", user, req, 404, "ticket_not_found", <<>>)
                   ELSE IF AccessDenied(user, found[1])
                   THEN Reply("getTicketAttachments", user, req, 403, "access_denied", <<>>)
                   ELSE Reply("getTicketAttachments", user, req, 200, "ok",
                              getTicketAttachments(ticketId))
        /\ UNCHANGED <<store, clock, accounts>>

\* GET /attachments/:id/download
downloadAttachment(user, attachmentId) ==
    LET found == getAttachmentById(attachmentId)
        req == [id |-> attachmentId]
    IN  /\ last' = IF ~validateFileAccess(attachmentId, user.userId, user.role)
                   THEN Reply("downloadAttachment", user, req, 403, "access_denied", <<>>)
                   ELSE IF found = <<>>
                   THEN Reply("downloadAttachment", user, req, 404, "attachment_not_found", <<>>)
                   ELSE IF ~existsSync(found[1].file_path)
                   THEN Reply("downloadAttachment", user, req, 404, "file_not_on_disk", <<>>)
                   ELSE Reply("downloadAttachment", user, req, 200, "ok",
                              disk[found[1].file_path])
        /\ UNCHANGED <<store, clock, accounts>>

\* fs.unlinkSync(path)
unlinkSync(path) == [p \in DOMAIN disk \ {path} |-> disk[p]]

\* DELETE /attachments/:id
deleteAttachment(user, attachmentId, fault) ==
    LET req == [id |-> attachmentId, fault |-> fault]
        found == getAttachmentById(attachmentId)
        Others(r) == r.id # attachmentId
        \* try { if (existsSync) unlinkSync } catch { console.error }
        unlinked == IF existsSync(found[1].file_path) /\ fault # "unlinkSync"
                    THEN unlinkSync(found[1].file_path) ELSE disk
    IN  IF ~requireAdmin(user) \/ user.role # "admin"
        THEN /\ last' = Reply("deleteAttachment", user, req, 403, "admin_required", <<>>)
             /\ UNCHANGED <<store, clock, accounts>>
        ELSE IF found = <<>>
        THEN /\ last' = Reply("deleteAttachment", user, req, 404, "attachment_not_found", <<>>)
             /\ UNCHANGED <<store, clock, accounts>>
        ELSE IF fault = "delete"
        THEN /\ disk' = unlinked
             /\ last' = Throw("deleteAttachment", user, req, "sqlite_io")
             /\ UNCHANGED <<db, filenames, clock, accounts>>
        ELSE /\ disk' = unlinked
             /\ attachments' = Where(attachments, {r \in Rows(attachments) : Others(r)})
             /\ last' = Reply("deleteAttachment", user, req, 200, "deleted", <<>>)
             /\ UNCHANGED <<tickets, ticket_messages, sqlite_sequence, filenames, clock, accounts>>

(***************************************************************************)
(* Accounts: login signs a token carrying the role the users row holds at  *)
(* that moment; authenticate hands the decoded payload to the handlers     *)
(* without reading the users table again.                                  *)
(***************************************************************************)
\* POST /auth/login with the credentials of an active user
login(userId) ==
    LET token == [userId |-> userId, role |-> users[userId]]
    IN  /\ userId \in DOMAIN users
        /\ issued' = issued \cup {token}
        /\ last' = Reply("login", token, [id |-> userId], 200, "ok", <<>>)
        /\ UNCHANGED <<store, clock, users>>

\* PUT /users/:id naming a role
updateUser(user, id, role) ==
    LET req == [id |-> id, role |-> role]
    IN  IF ~requireAdmin(user)
        THEN /\ last' = Reply("updateUser", user, req, 403, "admin_required", <<>>)
             /\ UNCHANGED <<store, clock, accounts>>
        ELSE IF id \notin DOMAIN users
        THEN /\ last' = Throw("updateUser", user, req, "user_not_found")
             /\ UNCHANGED <<store, clock, accounts>>
        ELSE IF role \notin {"user", "admin"}
        THEN /\ last' = Throw("updateUser", user, req, "invalid_role")
             /\ UNCHANGED <<store, clock, accounts>>
        ELSE /\ users' = [users EXCEPT ![id] = role]
             /\ last' = Reply("updateUser", user, req, 200, "ok", <<>>)
             /\ UNCHANGED <<store, clock, issued>>

(***************************************************************************)
(* Server start on a database an earlier version left: the tables exist   *)
(* (CREATE TABLE IF NOT EXISTS changes nothing) and the notes of the       *)
(* ticket_notes table are copied into ticket_messages.  No statement       *)
(* writes ticket_notes, and the DROP TABLE is commented out.               *)
(***************************************************************************)
\* SELECT * FROM ticket_notes
ticket_notes ==
    <<[id |-> 1, ticket_id |-> 1, admin_id |-> 1, note |-> <<"n">>, is_internal |-> 1,
       created_at |-> 0],
      [id |-> 2, ticket_id |-> 1, admin_id |-> 1, note |-> <<"m">>, is_internal |-> 0,
       created_at |-> 0]>>

\* the database as the earlier version left it: a ticket with notes, no message
InitLegacy ==
    /\ clock = 0
    /\ tickets = <<NewTicketRow(1, generateTicketNumber(getFullYear(0), 42), 2,
                                <<"a">>, <<"b">>, "hardware", "medium")>>
    /\ ticket_messages = <<>>
    /\ attachments = <<>>
    /\ sqlite_sequence = [tickets |-> 1, ticket_messages |-> 0, attachments |-> 0]
    /\ disk = <<>>
    /\ filenames = 0
    /\ users = UserRole
    /\ issued = {}
    /\ last = [op |-> "start", status |-> 0]

\* the row insertMessage.run(...) stores for a note
MessageOfNote(id, note) ==
    [id |-> id, ticket_id |-> note.ticket_id, user_id |-> note.admin_id,
     message |-> note.note, is_internal |-> note.is_internal,
     created_at |-> note.created_at]

\* initializeDatabase, with migrateNotesToMessages at its end.  The inserts are
\* not in a transaction: a note whose ticket or author is gone fails its foreign
\* key, the exception ends the start, and the notes before it stay copied.
initializeDatabase ==
    LET Insertable(note) == /\ getTicketById(note.ticket_id) # <<>>
                            /\ note.admin_id \in DOMAIN users
        failing == {i \in DOMAIN ticket_notes : ~Insertable(ticket_notes[i])}
        copied == IF failing = {} THEN Len(ticket_notes)
                  ELSE (CHOOSE i \in failing : \A j \in failing : i <= j) - 1
        base == sqlite_sequence.ticket_messages
        rows == [i \in 1 .. copied |-> MessageOfNote(base + i, ticket_notes[i])]
    IN  /\ ticket_messages' = ticket_messages \o rows
        /\ sqlite_sequence' = [sqlite_sequence EXCEPT !.ticket_messages = base + copied]
        /\ last' = [op |-> "initializeDatabase",
                    status |-> IF failing = {} THEN 0 ELSE 1, copied |-> copied]
        /\ UNCHANGED <<tickets, attachments, disk, filenames, clock, accounts>>

(***************************************************************************)
(* Requests.  Ids range one past the rows that can exist, so that a        *)
(* request can name a row that does not.                                   *)
(***************************************************************************)
TicketIds == 1 .. MaxTickets + 1
AttachmentIds == 1 .. MaxAttachments + 1

Members == {user \in Tokens : user.role = "user"}

Titles == {<<"a">>, <<"A", "b">>}
PriorityInputs == {"undefined", "high"}
RandomNumbers == {7, 42}
DrawnNumbers == {42, 9999}
Queries == {<<>>, <<"a">>, <<"_", "b">>, <<"4">>, <<"t", "k", "t">>}
MessageInputs == {<<>>, <<" ">>, <<" ", "a">>}
IsInternalInputs == {"undefined", "true", "'true'", "1", "'yes'"}
RoleInputs == {"user", "admin", "owner"}
NoUpdate == [status |-> "undefined", assigned_to |-> UNDEFINED, priority |-> "undefined"]
UpdateInputs ==
    {NoUpdate,
     [NoUpdate EXCEPT !.status = "closed"],
     [NoUpdate EXCEPT !.assigned_to = 3],
     [NoUpdate EXCEPT !.priority = "high"]}
ValidFile == [present |-> TRUE, originalname |-> "a.png", size |-> MAX_FILE_SIZE,
              mimetype |-> "image/png", buffer |-> "bytes of a"]
FileInputs ==
    {NoFile, ValidFile,
     [ValidFile EXCEPT !.size = MAX_FILE_SIZE + 1],
     [ValidFile EXCEPT !.mimetype = "application/x-executable"]}

\* two files of different names and different bytes
SentFiles == {ValidFile, [ValidFile EXCEPT !.originalname = "b.png", !.buffer = "bytes of b"]}

\* The bounds: what a run may still add.
MayCreate == sqlite_sequence.tickets < MaxTickets
MayList == sqlite_sequence.tickets < MaxListed
MayNumber == sqlite_sequence.tickets < MaxNumbered
MayCascade == sqlite_sequence.tickets < MaxCascaded
MayAppend == sqlite_sequence.ticket_messages < MaxMessages
MayPost == sqlite_sequence.ticket_messages < MaxPosted
MayUpload == filenames < MaxAttachments
MayStore == sqlite_sequence.attachments < MaxStored
MayTick == clock < MaxClock
MayMigrate == sqlite_sequence.ticket_messages < MaxMigrated

\* a member files a well-formed ticket
FileTicket ==
    /\ MayCreate
    /\ \E user \in Members, random \in RandomNumbers :
          createTicket(user, <<"a">>, <<"b">>, "hardware", "undefined", random)

(***************************************************************************)
(* The ticket registry: create, update, delete.                            *)
(***************************************************************************)
NextTickets ==
    \/ /\ MayCreate
       /\ \E user \in Tokens, title \in {<<>>, <<"a">>}, priority \in PriorityInputs,
             random \in RandomNumbers :
             createTicket(user, title, <<"b">>, "hardware", priority, random)
    \/ \E user \in Tokens, id \in TicketIds, updates \in UpdateInputs :
          updateTicket(user, id, updates)
    \/ \E user \in Tokens, id \in TicketIds : deleteTicket(user, id)

SpecTickets == Init /\ [][NextTickets]_vars

(***************************************************************************)
(* Accounts whose role changes while their tokens are in use.              *)
(***************************************************************************)
NextAccounts ==
    \/ \E userId \in {1, 2} : login(userId)
    \/ \E user \in issued, id \in {2, 4}, role \in RoleInputs : updateUser(user, id, role)
    \/ /\ MayCreate
       /\ \E user \in issued :
             createTicket(user, <<"a">>, <<"b">>, "hardware", "undefined", sqlite_sequence.tickets)
    \/ /\ MayPost
       /\ \E user \in issued, id \in 1 .. MaxTickets, is_internal \in {"undefined", "true"} :
             addMessage(user, id, <<"a">>, is_internal)

SpecAccounts == Init /\ [][NextAccounts]_vars

(***************************************************************************)
(* Requests carrying values outside the enums.                             *)
(***************************************************************************)
NextEnums ==
    \/ /\ MayCreate
       /\ \E user \in Tokens, category \in {"hardware", "billing"},
             priority \in {"undefined", "urgent"} :
             createTicket(user, <<"a">>, <<"b">>, category, priority, 42)
    \/ \E user \in Tokens, id \in TicketIds,
          updates \in {[NoUpdate EXCEPT !.status = "closed"],
                       [NoUpdate EXCEPT !.status = "done"],
                       [NoUpdate EXCEPT !.priority = "urgent"]} :
          updateTicket(user, id, updates)

SpecEnums == Init /\ [][NextEnums]_vars

(***************************************************************************)
(* The status of tickets.                                                  *)
(***************************************************************************)
NextLifecycle ==
    \/ FileTicket
    \/ \E user \in Tokens, id \in TicketIds, status \in Statuses :
          updateTicket(user, id, [NoUpdate EXCEPT !.status = status])
    \/ \E user \in Tokens, id \in TicketIds : deleteTicket(user, id)

SpecLifecycle == Init /\ [][NextLifecycle]_vars

(***************************************************************************)
(* Tickets deleted with their messages and attachments.                    *)
(***************************************************************************)
NextCascade ==
    \/ /\ MayCascade
       /\ \E user \in {member \in Members : member.userId = 2} :
             createTicket(user, <<"a">>, <<"b">>, "hardware", "undefined",
                          sqlite_sequence.tickets)
    \/ /\ MayPost
       /\ \E user \in Tokens, id \in 1 .. MaxCascaded :
             addMessage(user, id, <<"a">>, "undefined")
    \/ /\ MayUpload
       /\ \E user \in Tokens, id \in 1 .. MaxCascaded :
             uploadAttachment(user, id, ValidFile, "none")
    \/ \E user \in Tokens, id \in 1 .. MaxCascaded + 1 : deleteTicket(user, id)

SpecCascade == Init /\ [][NextCascade]_vars

(***************************************************************************)
(* Ticket numbers drawn over the years.                                    *)
(***************************************************************************)
NextNumbers ==
    \/ MayTick /\ Tick
    \/ /\ MayNumber
       /\ \E user \in Members, random \in DrawnNumbers :
             createTicket(user, <<"a">>, <<"b">>, "hardware", "undefined", random)
    \/ \E user \in Tokens \ Members, id \in 1 .. MaxNumbered : deleteTicket(user, id)

SpecNumbers == Init /\ [][NextNumbers]_vars

(***************************************************************************)
(* Listing and searching tickets.                                          *)
(***************************************************************************)
NextListing ==
    \/ MayTick /\ Tick
    \/ /\ MayList
       /\ \E user \in Tokens, title \in Titles, random \in {42} :
             createTicket(user, title, <<"b">>, "hardware", "undefined", random)
    \/ \E user \in Tokens, id \in 1 .. MaxListed :
          updateTicket(user, id, [NoUpdate EXCEPT !.assigned_to = 3])
    \/ \E user \in Tokens : getTickets(user)
    \/ \E user \in Tokens, query \in Queries : searchTicketsHandler(user, query)

SpecListing == Init /\ [][NextListing]_vars

(***************************************************************************)
(* The message thread of tickets.                                          *)
(***************************************************************************)
NextThread ==
    \/ FileTicket
    \/ /\ MayAppend
       /\ \E user \in Tokens, id \in TicketIds, message \in MessageInputs,
             is_internal \in IsInternalInputs :
             addMessage(user, id, message, is_internal)
    \/ \E user \in Tokens, id \in TicketIds : getTicketByIdHandler(user, id, "ticket_messages")
    \/ \E user \in Tokens, id \in TicketIds : getTicketMessagesHandler(user, id, "ticket_messages")
    \/ \E user \in Tokens, id \in TicketIds : deleteTicket(user, id)

SpecThread == Init /\ [][NextThread]_vars

(***************************************************************************)
(* Threads written over time and read.                                     *)
(***************************************************************************)
NextReading ==
    \/ MayTick /\ Tick
    \/ /\ MayCreate
       /\ \E user \in {member \in Members : member.userId = 2} :
             createTicket(user, <<"a">>, <<"b">>, "hardware", "undefined",
                          sqlite_sequence.tickets)
    \/ /\ MayAppend
       /\ \E user \in Tokens, id \in TicketIds, is_internal \in {"undefined", "true"} :
             addMessage(user, id, <<"a">>, is_internal)
    \/ \E user \in Tokens, id \in TicketIds, scan \in ScanOrders :
          getTicketMessagesHandler(user, id, scan)

SpecReading == Init /\ [][NextReading]_vars

(***************************************************************************)
(* Messages of either visibility written and read back on every path.      *)
(***************************************************************************)
NextFlags ==
    \/ /\ MayCreate
       /\ \E user \in {member \in Members : member.userId = 2} :
             createTicket(user, <<"a">>, <<"b">>, "hardware", "undefined",
                          sqlite_sequence.tickets)
    \/ /\ MayAppend
       /\ \E user \in Tokens, id \in 1 .. MaxTickets, is_internal \in IsInternalInputs :
             addMessage(user, id, <<"a">>, is_internal)
    \/ \E user \in Tokens, id \in 1 .. MaxTickets :
          \/ getTicketMessagesHandler(user, id, "ticket_messages")
          \/ getTicketByIdHandler(user, id, "ticket_messages")

SpecFlags == Init /\ [][NextFlags]_vars

(***************************************************************************)
(* The server started, and started again, on a database with legacy notes. *)
(***************************************************************************)
NextRestart ==
    \/ MayMigrate /\ initializeDatabase
    \/ /\ MayMigrate
       /\ \E user \in Tokens, is_internal \in {"undefined", "true"} :
             addMessage(user, 1, <<"a">>, is_internal)
    \/ \E user \in Tokens : getTicketMessagesHandler(user, 1, "ticket_messages")

SpecRestart == InitLegacy /\ [][NextRestart]_vars

(***************************************************************************)
(* The attachments of tickets and the upload directory.                    *)
(***************************************************************************)
NextFiles ==
    \/ FileTicket
    \/ /\ MayUpload
       /\ \E user \in Tokens, id \in TicketIds, file \in FileInputs,
             fault \in UploadFaults :
             uploadAttachment(user, id, file, fault)
    \/ \E user \in Tokens, id \in TicketIds : getTicketAttachmentsHandler(user, id)
    \/ \E user \in Tokens, id \in AttachmentIds : downloadAttachment(user, id)
    \/ \E user \in Tokens, id \in AttachmentIds, fault \in DeleteFaults :
          deleteAttachment(user, id, fault)
    \/ \E user \in Tokens, id \in TicketIds : deleteTicket(user, id)

SpecFiles == Init /\ [][NextFiles]_vars

(***************************************************************************)
(* Files stored and read back, nothing failing underneath.                 *)
(***************************************************************************)
NextRoundTrip ==
    \/ FileTicket
    \/ /\ MayStore
       /\ \E user \in Tokens, id \in TicketIds, file \in SentFiles :
             uploadAttachment(user, id, file, "none")
    \/ \E user \in Tokens, id \in 1 .. MaxStored + 1 : downloadAttachment(user, id)
    \/ \E user \in Tokens, id \in 1 .. MaxStored + 1 : deleteAttachment(user, id, "none")
    \/ \E user \in Tokens, id \in TicketIds : deleteTicket(user, id)

SpecRoundTrip == Init /\ [][NextRoundTrip]_vars

(***************************************************************************)
(* The fields of a ticket under every operation that could touch them.     *)
(***************************************************************************)
NextFrame ==
    \/ /\ MayCreate
       /\ \E user \in {member \in Members : member.userId = 2} :
             createTicket(user, <<"a">>, <<"b">>, "hardware", "undefined",
                          sqlite_sequence.tickets)
    \/ \E user \in Tokens, id \in TicketIds, updates \in UpdateInputs :
          updateTicket(user, id, updates)
    \/ \E user \in {member \in Members : member.userId = 2}, id \in 1 .. MaxTickets :
          \/ MayPost /\ addMessage(user, id, <<"a">>, "true")
          \/ MayUpload /\ uploadAttachment(user, id, ValidFile, "none")
          \/ getTicketByIdHandler(user, id, "ticket_messages")
    \/ \E user \in Tokens \ Members, id \in 1 .. MaxAttachments :
          deleteAttachment(user, id, "none")

SpecFrame == Init /\ [][NextFrame]_vars

(***************************************************************************)
(* Every ticket-scoped operation together.                                 *)
(***************************************************************************)
Next ==
    \/ /\ MayCreate
       /\ \E user \in {member \in Members : member.userId = 2} :
             createTicket(user, <<"a">>, <<"b">>, "hardware", "undefined",
                          sqlite_sequence.tickets)
    \/ \E user \in Tokens, id \in TicketIds :
          \/ getTicketByIdHandler(user, id, "ticket_messages")
          \/ getTicketMessagesHandler(user, id, "ticket_messages")
          \/ getTicketAttachmentsHandler(user, id)
          \/ deleteTicket(user, id)
          \/ updateTicket(user, id, [NoUpdate EXCEPT !.status = "closed"])
          \/ MayPost /\ \E message \in {<<>>, <<"a">>} :
                addMessage(user, id, message, "true")
          \/ MayUpload /\ \E file \in {NoFile, ValidFile} :
                uploadAttachment(user, id, file, "none")
    \/ \E user \in Tokens, id \in AttachmentIds :
          \/ downloadAttachment(user, id)
          \/ deleteAttachment(user, id, "none")

Spec == Init /\ [][Next]_vars

(***************************************************************************)
(* Properties.                                                             *)
(***************************************************************************)
\* the messages a reply of a message-returning operation carries
ReturnedMessages(reply) ==
    IF reply.op = "getTicketById" THEN reply.body.messages ELSE reply.body

\* C1: a member's successful read of a thread (GET /tickets/:id/messages, or the
\* thread embedded in GET /tickets/:id) returns no message with is_internal = true.
C1_MemberReadsNoInternal ==
    (/\ last.op \in {"getTicketMessages", "getTicketById"}
     /\ last.status = 200
     /\ last.user.role = "user")
        => \A i \in DOMAIN ReturnedMessages(last) : ~ReturnedMessages(last)[i].is_internal

\* the attachment row a request for attachment id names, as it is before the request
RowBefore(reply) == getAttachmentById(reply.req.id)

\* C2: when an administrator deletes an attachment and the deletion of its file
\* fails, the caller gets a failure and the metadata row stays.
C2_FailedUnlinkKeepsRow ==
    [][(/\ last'.op = "deleteAttachment"
        /\ last'.user.role = "admin"
        /\ last'.req.fault = "unlinkSync"
        /\ RowBefore(last') # <<>>
        /\ existsSync(RowBefore(last')[1].file_path))
           => /\ last'.status >= 400
              /\ attachments' = attachments]_vars

TicketScopedOps ==
    {"getTicketById", "getTicketMessages", "addMessage", "getTicketAttachments",
     "uploadAttachment", "downloadAttachment", "updateTicket", "deleteTicket",
     "deleteAttachment"}

\* the ticket a ticket-scoped request is about, as it is before the request
TargetTicket(reply) ==
    IF reply.op \in {"downloadAttachment", "deleteAttachment"}
    THEN IF RowBefore(reply) = <<>> THEN <<>>
         ELSE getTicketById(RowBefore(reply)[1].ticket_id)
    ELSE getTicketById(reply.req.id)

\* the request behind the reply comes from a member who did not create the
\* existing ticket it is about
ByNonOwnerMember(reply) ==
    /\ reply.op \in TicketScopedOps
    /\ reply.user.role = "user"
    /\ TargetTicket(reply) # <<>>
    /\ TargetTicket(reply)[1].user_id # reply.user.userId

\* C3: every ticket-scoped operation of a member on an existing ticket that member
\* did not create is answered Forbidden (403) and changes nothing in the tables or
\* on the disk.
C3_NonOwnerForbidden ==
    [][ByNonOwnerMember(last') => (last'.status = 403 /\ UNCHANGED store)]_vars

\* the stored row of the message a successful add-message reply returned
StoredMessage(reply) ==
    Where(ticket_messages, {r \in Rows(ticket_messages) : r.id = reply.body.id})[1]

\* C4: the message an add-message request persists is internal exactly when the
\* caller is an administrator and is_internal was given as true, 'true' or 1;
\* otherwise it is public.
C4_VisibilityResolution ==
    (last.op = "addMessage" /\ last.status = 201)
        => StoredMessage(last).is_internal =
              IF last.user.role = "admin" /\ last.req.is_internal \in {"true", "'true'", "1"}
              THEN 1 ELSE 0

\* C4, witness: a member asked for an internal message and a public one was stored
C4_Witness ==
    /\ last.op = "addMessage"
    /\ last.status = 201
    /\ last.user.role = "user"
    /\ last.req.is_internal = "true"
    /\ StoredMessage(last).is_internal = 0

\* the attachment rows whose file is not on the disk
Dangling(rows, files) == {i \in DOMAIN rows : rows[i].file_path \notin DOMAIN files}

C6_BlobsHaveRows ==
    \A p \in DOMAIN disk : \E i \in DOMAIN attachments : attachments[i].file_path = p

\* C7: the ticket a successful create returns, which is the row stored, has status
\* open and no assignee.
C7_CreatedOpenUnassigned ==
    (last.op = "createTicket" /\ last.status = 201)
        => /\ last.body.status = "open"
           /\ last.body.assigned_to = NULL
           /\ getTicketById(last.body.id) = <<last.body>>

\* C7, witness: an administrator created a ticket of priority high
C7_Witness ==
    /\ last.op = "createTicket"
    /\ last.status = 201
    /\ last.user.role = "admin"
    /\ last.req.priority = "high"
    /\ last.body.status = "open"

\* C8: an update of a ticket, a deletion of a ticket and a deletion of an
\* attachment asked for by a member are refused (403) and change nothing in the
\* tables or on the disk; only an administrator's succeeds.
C8_AdminOnlyWrites ==
    [][(last'.op \in {"updateTicket", "deleteTicket", "deleteAttachment"}
            /\ last'.user.role # "admin")
          => (last'.status = 403 /\ UNCHANGED store)]_vars

\* C8, witness: the owner of a ticket asked to delete an attachment of it and was
\* refused, the attachment still being there
C8_Witness ==
    /\ last.op = "deleteAttachment"
    /\ last.user.role = "user"
    /\ last.status = 403
    /\ RowBefore(last) # <<>>
    /\ TargetTicket(last) # <<>>
    /\ TargetTicket(last)[1].user_id = last.user.userId

\* C9: the tickets the list and the search return to a member were all created by
\* that member.
C9_MemberSeesOwnTickets ==
    (/\ last.op \in {"getTickets", "searchTickets"}
     /\ last.status = 200
     /\ last.user.role = "user")
        => \A i \in DOMAIN last.body : last.body[i].user_id = last.user.userId

\* C9, witness: a member's search matched a ticket of that member while a ticket
\* of somebody else matched the query as well
C9_Witness ==
    /\ last.op = "searchTickets"
    /\ last.status = 200
    /\ last.user.role = "user"
    /\ last.body # <<>>
    /\ \E i \in DOMAIN tickets :
          /\ tickets[i].user_id # last.user.userId
          /\ Like(tickets[i].title, <<"%">> \o last.req.q \o <<"%">>)

\* the upload reached FileService.uploadFile: a file was sent, the ticket exists
\* and the caller may use it
UploadAdmitted(reply) ==
    /\ reply.op = "uploadAttachment"
    /\ reply.req.file.present
    /\ getTicketById(reply.req.id) # <<>>
    /\ ~AccessDenied(reply.user, getTicketById(reply.req.id)[1])

\* C10: an upload of at most MAX_FILE_SIZE bytes is not refused for its size; a
\* larger one fails with an error of its own kind, which a storage failure's
\* reply (500, 'Internal server error') is not, and writes no file and no row.
C10_SizeCeiling ==
    [][UploadAdmitted(last') =>
          IF last'.req.file.size > MAX_FILE_SIZE
          THEN /\ last'.status >= 400
               /\ <<last'.status, last'.message>> # <<500, "internal_server_error">>
               /\ UNCHANGED <<attachments, disk>>
          ELSE (last'.req.file.mimetype \in allowedMimeTypes /\ last'.req.fault = "none")
                   => last'.status = 201]_vars

\* C11: an upload whose declared MIME type is outside the allow-list fails with an
\* error of its own kind, which a storage failure's reply (500, 'Internal server
\* error') is not, and writes no file and no row.
C11_UnsupportedTypeRefused ==
    [][(/\ UploadAdmitted(last')
        /\ last'.req.file.size <= MAX_FILE_SIZE
        /\ last'.req.file.mimetype \notin allowedMimeTypes)
          => /\ last'.status >= 400
             /\ <<last'.status, last'.message>> # <<500, "internal_server_error">>
             /\ UNCHANGED <<attachments, disk>>]_vars

\* C12: a download is answered Not Found (404) when no attachment row has the id
\* asked for, whoever asks, and when the row exists but its file is not on the
\* disk and the caller is an administrator or the owner of the ticket.
C12_DownloadNotFound ==
    (last.op = "downloadAttachment")
        => /\ RowBefore(last) = <<>> => last.status = 404
           /\ (/\ RowBefore(last) # <<>>
               /\ ~existsSync(RowBefore(last)[1].file_path)
               /\ validateFileAccess(last.req.id, last.user.userId, last.user.role))
                 => last.status = 404

\* the file sent under a name: the files sent differ in name, so the name an
\* attachment row keeps tells which upload the row comes from
Sent(name) == CHOOSE file \in SentFiles : file.originalname = name

\* C13: a download of an attachment whose row exists, asked for by an
\* administrator or the owner of the ticket, succeeds and returns the bytes that
\* were sent in the upload that made the row, whatever was uploaded and deleted
\* in between.
C13_RoundTrip ==
    (/\ last.op = "downloadAttachment"
     /\ RowBefore(last) # <<>>
     /\ validateFileAccess(last.req.id, last.user.userId, last.user.role))
        => /\ last.status = 200
           /\ last.body = Sent(RowBefore(last)[1].original_filename).buffer

\* C13, witness: the owner read back the first of two attachments of different
\* bytes, the second having been uploaded after it
C13_Witness ==
    /\ last.op = "downloadAttachment"
    /\ last.status = 200
    /\ last.user.role = "user"
    /\ last.req.id = 1
    /\ last.body = "bytes of a"
    /\ \E i \in DOMAIN attachments :
          attachments[i].id = 2 /\ attachments[i].original_filename = "b.png"

\* the text is TKT-<year>-<four decimal digits>
IsTicketNumber(text, year) ==
    /\ Len(text) = 13
    /\ SubSeq(text, 1, 4) = <<"T", "K", "T", "-">>
    /\ SubSeq(text, 5, 8) = toString(year)
    /\ text[9] = "-"
    /\ \A i \in 10 .. 13 : \E d \in DOMAIN Digit : text[i] = Digit[d]

\* C14: the tickets that exist have pairwise distinct ticket numbers, and the
\* number of each is TKT-, the year it was created in, a dash and exactly four
\* decimal digits.
C14_TicketNumbers ==
    /\ \A i, j \in DOMAIN tickets :
          i # j => tickets[i].ticket_number # tickets[j].ticket_number
    /\ \A i \in DOMAIN tickets :
          IsTicketNumber(tickets[i].ticket_number, getFullYear(tickets[i].created_at))

\* C14, witness: two tickets created in different years carry the same four
\* digits, and a ticket with the number of one of them was deleted before
C14_Witness ==
    /\ Len(tickets) < sqlite_sequence.tickets
    /\ last.op = "createTicket"
    /\ last.status = 201
    /\ \E i, j \in DOMAIN tickets :
          /\ getFullYear(tickets[i].created_at) # getFullYear(tickets[j].created_at)
          /\ SubSeq(tickets[i].ticket_number, 10, 13) = <<"0", "0", "4", "2">>
          /\ SubSeq(tickets[j].ticket_number, 10, 13) = <<"0", "0", "4", "2">>

\* C15: a create request with title, description and category succeeds (201)
\* also when the number drawn for it is the number of an existing ticket.
C15_CollisionRegenerates ==
    [][(/\ last'.op = "createTicket"
        /\ last'.req.title # <<>>
        /\ last'.req.description # <<>>
        /\ last'.req.category \in Categories)
          => last'.status = 201]_vars

\* C16: an administrator's update of the status of an existing ticket to any of
\* open, in_progress, resolved and closed succeeds, whatever status the ticket is
\* in, closed included, and leaves the ticket in the status asked for.
C16_AnyStatusToAny ==
    [][(/\ last'.op = "updateTicket"
        /\ last'.user.role = "admin"
        /\ getTicketById(last'.req.id) # <<>>
        /\ last'.req.updates.status \in Statuses)
          => /\ last'.status = 200
             /\ \E i \in DOMAIN tickets' :
                   /\ tickets'[i].id = last'.req.id
                   /\ tickets'[i].status = last'.req.updates.status]_vars

\* C16, witness: an administrator's update has put a ticket, which was created
\* open, in status in_progress
C16_Witness ==
    /\ last.op = "updateTicket"
    /\ last.user.role = "admin"
    /\ last.status = 200
    /\ last.req.updates.status = "in_progress"
    /\ last.body.status = "in_progress"
    /\ getTicketById(last.req.id) = <<last.body>>

\* the rows of a table that belong to a ticket
OfTicket(table, ticketId) == {r \in Rows(table) : r.ticket_id = ticketId}

\* C17: after an administrator's deletion of an existing ticket no message and no
\* attachment row of that ticket is left and the rows of every other ticket are
\* what they were; the deletion of a ticket that does not exist is answered Not
\* Found, not with an exception, and changes nothing.
C17_DeleteCascades ==
    [][(last'.op = "deleteTicket" /\ last'.user.role = "admin")
          => IF getTicketById(last'.req.id) # <<>>
             THEN /\ last'.status = 200
                  /\ OfTicket(ticket_messages', last'.req.id) = {}
                  /\ OfTicket(attachments', last'.req.id) = {}
                  /\ \A id \in 1 .. sqlite_sequence.tickets :
                        id # last'.req.id
                          => /\ OfTicket(ticket_messages', id) = OfTicket(ticket_messages, id)
                             /\ OfTicket(attachments', id) = OfTicket(attachments, id)
                  /\ Len(ticket_messages') = Cardinality(Rows(ticket_messages'))
                  /\ Len(attachments') = Cardinality(Rows(attachments'))
             ELSE /\ last'.status = 404
                  /\ UNCHANGED store]_vars

\* C17, witness: a ticket with a message has been deleted, its message with it,
\* and the attachment of another ticket is still there
C17_Witness ==
    /\ last.op = "deleteTicket"
    /\ last.status = 200
    /\ sqlite_sequence.ticket_messages > 0
    /\ ticket_messages = <<>>
    /\ attachments # <<>>

\* the message rows of a ticket a caller of the role may read
Readable(ticketId, role) ==
    {r \in OfTicket(ticket_messages, ticketId) : role = "admin" \/ r.is_internal = 0}

\* C18: the message list of a ticket returns to an administrator every message of
\* the ticket and to the owner every public one, each once and nothing else, by
\* ascending creation time: the owner's list is the thread as the query orders
\* it with the internal messages taken out.
C18_ThreadAsRead ==
    (last.op = "getTicketMessages" /\ last.status = 200)
        => /\ {last.body[i].id : i \in DOMAIN last.body}
                 = {r.id : r \in Readable(last.req.id, last.user.role)}
           /\ Len(last.body) = Cardinality(Readable(last.req.id, last.user.role))
           /\ \A i \in DOMAIN last.body :
                 \E r \in Readable(last.req.id, last.user.role) :
                    /\ r.id = last.body[i].id
                    /\ r.message = last.body[i].message
                    /\ r.created_at = last.body[i].created_at
           /\ \A i, j \in DOMAIN last.body :
                 i < j => last.body[i].created_at <= last.body[j].created_at
           /\ LET thread == getTicketMessages(last.req.id, last.req.scan)
                  Kept(m) == last.user.role = "admin" \/ ~m.is_internal
              IN  last.body = SelectSeq(thread, Kept)

\* C18, witness: the owner read a thread of an internal message and a public one
\* appended later, and got the public one alone
C18_Witness ==
    /\ last.op = "getTicketMessages"
    /\ last.status = 200
    /\ last.user.role = "user"
    /\ Len(last.body) = 1
    /\ Cardinality(OfTicket(ticket_messages, last.req.id)) = 2
    /\ \E r \in OfTicket(ticket_messages, last.req.id) :
          r.is_internal = 1 /\ r.created_at < last.body[1].created_at

\* the text has no character but blanks
Blank(text) == \A i \in DOMAIN text : text[i] = " "

\* C19: an add-message request whose message is missing, empty or blank is
\* answered 400, whoever sends it and whatever ticket it names, and no message is
\* stored.
C19_BlankMessageRefused ==
    [][(last'.op = "addMessage" /\ Blank(last'.req.message))
          => (last'.status = 400 /\ UNCHANGED store)]_vars

\* C19, witness: an administrator's message of one blank to an existing ticket
\* was refused
C19_Witness ==
    /\ last.op = "addMessage"
    /\ last.status = 400
    /\ last.user.role = "admin"
    /\ last.req.message = <<" ">>
    /\ getTicketById(last.req.id) # <<>>

\* the request carries a category, priority or status outside its enum, and
\* nothing else stands in its way
OutsideEnum(reply) ==
    \/ /\ reply.op = "createTicket"
       /\ reply.req.title # <<>> /\ reply.req.description # <<>> /\ reply.req.category # ""
       /\ \/ reply.req.category \notin Categories
          \/ reply.req.priority \notin Priorities \cup {"undefined"}
    \/ /\ reply.op = "updateTicket"
       /\ reply.user.role = "admin"
       /\ getTicketById(reply.req.id) # <<>>
       /\ \/ reply.req.updates.status \notin Statuses \cup {"undefined"}
          \/ reply.req.updates.priority \notin Priorities \cup {"undefined"}

\* C20: a create or update request with a category, priority or status outside
\* its enum fails with an error of its own kind, which a storage failure's reply
\* (500, 'Internal server error') is not, and leaves the tickets as they are.
C20_EnumValidation ==
    [][OutsideEnum(last')
          => /\ last'.status >= 400
             /\ <<last'.status, last'.message>> # <<500, "internal_server_error">>
             /\ tickets' = tickets]_vars

\* C21: an administrator's update of status, priority or assignee naming a
\* ticket id that no ticket has is answered Not Found (404) and changes no ticket.
C21_UpdateOfMissingTicket ==
    [][(/\ last'.op = "updateTicket"
        /\ last'.user.role = "admin"
        /\ getTicketById(last'.req.id) = <<>>)
          => (last'.status = 404 /\ tickets' = tickets)]_vars

\* C21, witness: an administrator's update of the assignee named an id no ticket
\* has while another ticket existed, and was answered Not Found
C21_Witness ==
    /\ last.op = "updateTicket"
    /\ last.user.role = "admin"
    /\ last.req.updates.assigned_to # UNDEFINED
    /\ last.status = 404
    /\ tickets # <<>>
    /\ getTicketById(last.req.id) = <<>>

\* C22: the message list of a ticket is in the order the messages were appended
\* in, also when two of them were appended within one instant of the clock and
\* carry the same created_at.
C22_AppendOrder ==
    (last.op = "getTicketMessages" /\ last.status = 200)
        => \A i, j \in DOMAIN last.body : i < j => last.body[i].id < last.body[j].id

\* C23: a message row, once stored, stays as it is (body, author, visibility,
\* creation time) from one state to the next, and goes only in an
\* administrator's deletion of the ticket it belongs to.
C23_MessagesAppendOnly ==
    [][\A r \in Rows(ticket_messages) :
          /\ \A q \in Rows(ticket_messages') : q.id = r.id => q = r
          /\ r \notin Rows(ticket_messages')
                => /\ last'.op = "deleteTicket"
                   /\ last'.user.role = "admin"
                   /\ last'.status = 200
                   /\ last'.req.id = r.ticket_id]_vars

\* C23, witness: an administrator has updated a ticket that has a message, and the
\* message is there
C23_Witness ==
    /\ last.op = "updateTicket"
    /\ last.status = 200
    /\ \E r \in Rows(ticket_messages) : r.ticket_id = last.req.id

\* C24: from one state to the next a ticket keeps its ticket_number and its
\* creator; its status, priority and assignee change only in a successful update
\* of that ticket by an administrator that names the field, and to the value
\* named.
C24_TicketFieldsFrame ==
    [][\A t \in Rows(tickets) : \A q \in Rows(tickets') :
          q.id = t.id
            => /\ q.ticket_number = t.ticket_number
               /\ q.user_id = t.user_id
               /\ \A field \in {"status", "priority", "assigned_to"} :
                     q[field] # t[field]
                       => /\ last'.op = "updateTicket"
                          /\ last'.user.role = "admin"
                          /\ last'.status = 200
                          /\ last'.req.id = t.id
                          /\ last'.req.updates[field] = q[field]]_vars

\* C24, witness: a message has been added to a ticket that an administrator had
\* closed and assigned before, and the ticket is closed and assigned still
C24_Witness ==
    /\ last.op = "addMessage"
    /\ last.status = 201
    /\ \E t \in Rows(tickets) :
          /\ t.id = last.req.id
          /\ t.status = "closed"
          /\ t.assigned_to = 3
          /\ t.priority = "medium"

\* C25: an upload that fails, at whatever step, leaves the upload directory and
\* the attachments table as they were before it.
C25_FailedUploadLeavesNothing ==
    [][(last'.op = "uploadAttachment" /\ last'.status >= 400)
          => UNCHANGED <<attachments, disk>>]_vars


(***************************************************************************)
(* C26: every message stored with is_internal = 1 is appended by a user    *)
(* whose row of the users table holds the role admin at the moment of the  *)
(* append, also when that role was changed after the user's token was      *)
(* signed.                                                                 *)
(***************************************************************************)
C26_InternalByAdministrator ==
    [][\A i \in DOMAIN ticket_messages' :
          (i > Len(ticket_messages) /\ ticket_messages'[i].is_internal = 1)
          => users[ticket_messages'[i].user_id] = "admin"]_vars

(***************************************************************************)
(* C29: in every state a ticket whose assigned_to is set references an     *)
(* existing user whose role is admin; an update naming a member or a user  *)
(* that does not exist does not leave the ticket assigned to that user.    *)
(***************************************************************************)
C29_AssigneeIsAdministrator ==
    \A t \in Rows(tickets) :
        t.assigned_to # NULL
        => (t.assigned_to \in DOMAIN users /\ users[t.assigned_to] = "admin")

(***************************************************************************)
(* C28: the visibility flag round-trips through the store.  A message      *)
(* appended with resolved visibility b is stored with is_internal 1 for    *)
(* b true and 0 for b false, and the read of the single message, the       *)
(* thread list and the ticket detail each return is_internal as the        *)
(* boolean b.                                                              *)
(***************************************************************************)
FlagOf(row) == row.is_internal = 1

ReadAsStored(messages) ==
    \A i \in DOMAIN messages :
        \E r \in Rows(ticket_messages) :
            r.id = messages[i].id /\ messages[i].is_internal = FlagOf(r)

C28_FlagRoundTrip ==
    /\ \A r \in Rows(ticket_messages) :
          /\ r.is_internal \in {0, 1}
          /\ Len(getMessageById(r.id)) = 1
          /\ ReadAsStored(getMessageById(r.id))
          /\ \A scan \in ScanOrders :
                /\ \E i \in DOMAIN getTicketMessages(r.ticket_id, scan) :
                      getTicketMessages(r.ticket_id, scan)[i].id = r.id
                /\ ReadAsStored(getTicketMessages(r.ticket_id, scan))
                /\ \A detail \in Rows(getTicketWithDetails(r.ticket_id, scan)) :
                      /\ \E i \in DOMAIN detail.messages : detail.messages[i].id = r.id
                      /\ ReadAsStored(detail.messages)
    /\ (last.op = "addMessage" /\ last.status = 201)
       => LET b == isInternalBool(last.user, last.req.is_internal)
          IN  /\ last.body.is_internal = b
              /\ \E r \in Rows(ticket_messages) :
                    r.id = last.body.id /\ r.is_internal = IF b THEN 1 ELSE 0
    /\ (last.op = "getTicketMessages" /\ last.status = 200) => ReadAsStored(last.body)
    /\ (last.op = "getTicketById" /\ last.status = 200) => ReadAsStored(last.body.messages)

\* the thread holds a public and an internal message, the internal one just appended
C28_Witness ==
    /\ last.op = "addMessage"
    /\ last.status = 201
    /\ last.body.is_internal
    /\ \E r \in Rows(ticket_messages) : r.is_internal = 1 /\ r.id = last.body.id
    /\ \E r \in Rows(ticket_messages) : r.is_internal = 0

(***************************************************************************)
(* C27: two administrator updates of the same ticket that are under way    *)
(* together both succeed, and afterwards each of status, priority and      *)
(* assigned_to holds the value of the update committed last among those    *)
(* that named the field; an update that does not name a field leaves what  *)
(* the other update wrote to it.  The handler has no await and the         *)
(* database calls are synchronous, so the two handlers commit one after    *)
(* the other, in either order: A is the update committed before, B the one *)
(* committed by the step.                                                  *)
(***************************************************************************)
Committed(reply) == reply.op = "updateTicket" /\ reply.status = 200

WellFormedUpdate(updates) ==
    /\ updates.status \in Statuses \cup {"undefined"}
    /\ updates.priority \in Priorities \cup {"undefined"}
    /\ updates.assigned_to \in DOMAIN users \cup {NULL, UNDEFINED}

LastWriter(named, given, before, after) ==
    IF named THEN after = given ELSE after = before

C27_LastWriterWins ==
    [][last'.op = "updateTicket"
       => LET B == last'.req.updates
          IN  /\ ( /\ requireAdmin(last'.user)
                   /\ getTicketById(last'.req.id) # <<>>
                   /\ WellFormedUpdate(B) ) => Committed(last')
              /\ Committed(last')
                 => \E t \in Rows(tickets), u \in Rows(tickets') :
                       /\ t.id = last'.req.id
                       /\ u.id = last'.req.id
                       /\ LastWriter(B.status # "undefined", B.status, t.status, u.status)
                       /\ LastWriter(B.priority # "undefined", B.priority, t.priority, u.priority)
                       /\ LastWriter(B.assigned_to # UNDEFINED, B.assigned_to,
                                     t.assigned_to, u.assigned_to)
                       /\ (Committed(last) /\ last.req.id = last'.req.id)
                          => LET A == last.req.updates
                             IN  /\ (B.status = "undefined" /\ A.status # "undefined")
                                    => u.status = A.status
                                 /\ (B.priority = "undefined" /\ A.priority # "undefined")
                                    => u.priority = A.priority
                                 /\ (B.assigned_to = UNDEFINED /\ A.assigned_to # UNDEFINED)
                                    => u.assigned_to = A.assigned_to]_vars

\* an update naming the priority alone is committed after one that closed the
\* ticket and one that assigned it: the ticket holds all three values
C27_Witness ==
    /\ Committed(last)
    /\ last.req.updates = [NoUpdate EXCEPT !.priority = "high"]
    /\ \E t \in Rows(tickets) :
          /\ t.id = last.req.id
          /\ t.status = "closed"
          /\ t.assigned_to = 3
          /\ t.priority = "high"

(***************************************************************************)
(* C30: the start of the server is idempotent on the thread.  While the    *)
(* ticket_notes table exists, however many times initializeDatabase (and   *)
(* with it migrateNotesToMessages) has run, each legacy note is            *)
(* represented by exactly one row of ticket_messages: a restart adds no    *)
(* message to any ticket.                                                  *)
(***************************************************************************)
Represents(m, note) == m = MessageOfNote(m.id, note)

CopiesOf(note) == {i \in DOMAIN ticket_messages : Represents(ticket_messages[i], note)}

C30_MigrationIdempotent ==
    \A note \in Rows(ticket_notes) :
        /\ Cardinality(CopiesOf(note)) <= 1
        /\ last.op = "initializeDatabase" => Cardinality(CopiesOf(note)) = 1

=============================================================================
